---- MODULE Spec2Model ----
(***************************************************************************)
(* Model of platformer.py: the game loop driver (GameEngine), the two      *)
(* game states (SplashScreenState, PlayingState), the level repository     *)
(* (LevelEngine), the scene compositor (VisualEngine), the audio port      *)
(* (MusicEngine) and the process entry point.                              *)
(***************************************************************************)
EXTENDS Integers, Sequences, FiniteSets, TLC

(* ------------------------------------------------------------------ *)
(* Program constants                                                   *)
(* ------------------------------------------------------------------ *)
GAME_NAME == "TLN Power"
WIDTH == 960
HEIGHT == 640
FPS == 60
EX_OK == 0
FONT_SM_SIZE == 32
FONT_MD_SIZE == 64
FONT_LG_SIZE == 72
PROMPT == "Appuie sur une touche"

(* ------------------------------------------------------------------ *)
(* Bounds of the model                                                 *)
(* ------------------------------------------------------------------ *)
\* longest batch of events one pygame.event.get() returns
MaxBatch == 2
\* number of ticks the loop may begin
MaxTicks == 3

(* ------------------------------------------------------------------ *)
(* Events (pygame.event.Event): a type and, for keyboard events, a key *)
(* attribute.  QUIT and MOUSEMOTION events carry no key attribute.    *)
(* ------------------------------------------------------------------ *)
NoKey == "no-attribute"
Keys == {"K_q", "K_SPACE", "K_LEFT", "K_RIGHT", "K_a"}
Events ==
    {[type |-> "QUIT", key |-> NoKey], [type |-> "MOUSEMOTION", key |-> NoKey],
     [type |-> "KEYUP", key |-> "K_q"]}
    \cup [type : {"KEYDOWN"}, key : Keys]
Batches == UNION {[1..n -> Events] : n \in 0..MaxBatch}

(* ------------------------------------------------------------------ *)
(* Level documents: the JSON object of data/level/<id>.json, a         *)
(* function from field names to JSON values.                           *)
(* ------------------------------------------------------------------ *)
JStr(s) == [t |-> "str", s |-> s, l |-> <<>>]
JList(l) == [t |-> "list", s |-> "", l |-> l]
JInt(n) == [t |-> "int", s |-> "", l |-> <<n>>]
LevelFields == {"name", "music", "background_color", "background_img", "scenery_img"}
StrFields == LevelFields \ {"background_color"}
Doc(name, music, color, bg, sc) ==
    [f \in LevelFields |->
        CASE f = "name" -> JStr(name)
          [] f = "music" -> JStr(music)
          [] f = "background_color" -> JList(color)
          [] f = "background_img" -> JStr(bg)
          [] f = "scenery_img" -> JStr(sc)]
WithExtra(doc) ==
    [f \in DOMAIN doc \cup {"gravity"} |-> IF f \in DOMAIN doc THEN doc[f] ELSE JStr("low")]
SplashDocs ==
    {Doc("Splash", "intro.ogg", <<0, 0, 0>>, "sky.png", "ground.png"),
     Doc("Splash", "intro.ogg", <<0, 0, 0>>, "sky.png", "hills.png"),
     Doc("Splash", "intro.ogg", <<0, 0, 0, 0>>, "sky.png", "ground.png")}
World1Docs ==
    {Doc("World 1", "world1.ogg", <<135, 206, 235>>, "sky.png", "ground.png"),
     Doc("World 1", "world1.ogg", <<135, 206, 235>>, "clouds.png", "hills.png"),
     Doc("World 1", "world1.ogg", <<135, 206, 235, 255>>, "sky.png", "ground.png"),
     WithExtra(Doc("World 1", "world1.ogg", <<135, 206, 235>>, "sky.png", "ground.png"))}

(* ------------------------------------------------------------------ *)
(* Level repository (LevelEngine)                                      *)
(* ------------------------------------------------------------------ *)
\* The frozen dataclass Level: five fields.
Level(name, music, color, bg, sc) ==
    [name |-> name, music |-> music, background_color |-> color,
     background_img |-> bg, scenery_img |-> sc]
NoLevel == Level("", "", <<>>, "", "")

\* level.schema.json: the five required fields, four strings and an array of
\* three integers 0..255; extra fields are permitted by the schema.
Validate(doc) ==
    /\ LevelFields \subseteq DOMAIN doc
    /\ \A f \in StrFields : doc[f].t = "str"
    /\ doc["background_color"].t = "list"
    /\ Len(doc["background_color"].l) = 3
    /\ \A i \in 1..Len(doc["background_color"].l) : doc["background_color"].l[i] \in 0..255

\* Mutant of FromDictError: the decode is not strict, extra keys pass.
FromDictError_Lenient(doc) ==
    IF LevelFields \ DOMAIN doc # {} THEN "MissingValueError"
    ELSE IF \/ \E f \in StrFields : doc[f].t # "str"
            \/ doc["background_color"].t # "list"
         THEN "WrongTypeError"
    ELSE "none"

\* dacite.from_dict with Config(strict=True): extra keys, then per field a
\* missing key or a value of the wrong type.
FromDictError(doc) ==
    IF DOMAIN doc \ LevelFields # {} THEN "UnexpectedDataError"
    ELSE IF LevelFields \ DOMAIN doc # {} THEN "MissingValueError"
    ELSE IF \/ \E f \in StrFields : doc[f].t # "str"
            \/ doc["background_color"].t # "list"
         THEN "WrongTypeError"
    ELSE "none"
FromDict(doc) ==
    Level(doc["name"].s, doc["music"].s, doc["background_color"].l,
          doc["background_img"].s, doc["scenery_img"].s)

\* Mutant of LoadFrom: the document is decoded before it is validated.
LoadFrom_DecodeFirst(fs, level) ==
    IF level \notin DOMAIN fs
    THEN [err |-> "FileNotFoundError", level |-> NoLevel, steps |-> <<"read">>]
    ELSE IF FromDictError(fs[level]) # "none"
    THEN [err |-> FromDictError(fs[level]), level |-> NoLevel, steps |-> <<"read", "from_dict">>]
    ELSE IF ~Validate(fs[level])
    THEN [err |-> "ValidationError", level |-> NoLevel,
          steps |-> <<"read", "from_dict", "validate">>]
    ELSE [err |-> "none", level |-> FromDict(fs[level]),
          steps |-> <<"read", "from_dict", "validate">>]

\* LevelEngine.load on the files of data/level: read, validate, decode.
\* The result is [err, level, steps]; err = "none" when a Level is
\* returned, steps are the steps of load that were entered.
LoadFrom(fs, level) ==
    IF level \notin DOMAIN fs
    THEN [err |-> "FileNotFoundError", level |-> NoLevel, steps |-> <<"read">>]
    ELSE IF ~Validate(fs[level])
    THEN [err |-> "ValidationError", level |-> NoLevel, steps |-> <<"read", "validate">>]
    ELSE IF FromDictError(fs[level]) # "none"
    THEN [err |-> FromDictError(fs[level]), level |-> NoLevel,
          steps |-> <<"read", "validate", "from_dict">>]
    ELSE [err |-> "none", level |-> FromDict(fs[level]),
          steps |-> <<"read", "validate", "from_dict">>]
ConfigErrors ==
    {"FileNotFoundError", "ValidationError", "UnexpectedDataError", "MissingValueError",
     "WrongTypeError"}
\* f"world-{level}"
WorldId(level) == IF level = 1 THEN "world-1" ELSE "world-n"

(* ------------------------------------------------------------------ *)
(* Scene compositor (VisualEngine)                                     *)
(* Surfaces are sampled at the pixels of Points.  A pixel holds a      *)
(* Paint: nothing (transparent), a fill colour, a pixel of an image,   *)
(* or a pixel of a rendered text.                                      *)
(* ------------------------------------------------------------------ *)
SampleXs == {0, 480, 959}
SampleYs == {40, 250, 320, 400, 600}
Points == SampleXs \X SampleYs
Clear == [kind |-> "clear", src |-> "", color |-> <<>>]
ColorPaint(color) == [kind |-> "color", src |-> "", color |-> color]
ImagePaint(file) == [kind |-> "image", src |-> file, color |-> <<>>]
TextPaint(text) == [kind |-> "text", src |-> text, color |-> <<>>]

\* The image files of data/assets/backgrounds: original width (ow) and
\* height (oh), opaque in the rows from solid_from down, transparent above.
Assets ==
    [f \in {"sky.png", "clouds.png", "ground.png", "hills.png"} |->
        CASE f = "sky.png" -> [ow |-> 512, oh |-> 256, solid_from |-> 0]
          [] f = "clouds.png" -> [ow |-> 300, oh |-> 200, solid_from |-> 100]
          [] f = "ground.png" -> [ow |-> 96, oh |-> 64, solid_from |-> 56]
          [] f = "hills.png" -> [ow |-> 64, oh |-> 128, solid_from |-> 76]]

\* Mutant of ScaledWidth: the width is rounded to the nearest integer.
ScaledWidth_Rounds(ow, h) == (2 * ow * HEIGHT + h) \div (2 * h)

\* w = int(img.get_width() * HEIGHT / h)
ScaledWidth(ow, h) == (ow * HEIGHT) \div h
\* pygame.transform.scale(img, (w, HEIGHT)): the scaled image of a file.
ScaledImage(file) ==
    [file |-> file, w |-> ScaledWidth(Assets[file].ow, Assets[file].oh), h |-> HEIGHT]
\* pygame.transform.scale(img, (w, HEIGHT)) of an image of ow x oh pixels:
\* the size of the result.
Scale(ow, oh) == [w |-> ScaledWidth(ow, oh), h |-> HEIGHT]
\* whether pixel (sx, sy) of the scaled image is opaque: the source row is
\* sy * oh / HEIGHT
OpaqueAt(img, sx, sy) == (sy * Assets[img.file].oh) \div img.h >= Assets[img.file].solid_from
\* Mutant of TileXs: the loop stops one tile early, range(0, WIDTH - w, w).
TileXs_StopsEarly(w) == {k * w : k \in 0..((WIDTH - w - 1) \div w)}

\* range(0, WIDTH, w)
TileXs(w) == {k * w : k \in 0..((WIDTH - 1) \div w)}
\* for x in range(0, WIDTH, w): layer.blit(img, [x, y0]); an opaque image
\* pixel replaces the layer's pixel, a transparent one leaves it.
BlitTiles(layer, img, y0) ==
    [p \in Points |->
        IF \E x \in TileXs(img.w) :
              /\ x <= p[1] /\ p[1] < x + img.w
              /\ y0 <= p[2] /\ p[2] < y0 + img.h
              /\ OpaqueAt(img, p[1] - x, p[2] - y0)
        THEN ImagePaint(img.file) ELSE layer[p]]
\* dest.blit(src, (0, 0)) of a full-size layer
BlitLayer(dest, src) == [p \in Points |-> IF src[p].kind = "clear" THEN dest[p] ELSE src[p]]
\* layer.fill(color)
Fill(color) == [p \in Points |-> ColorPaint(color)]

\* VisualEngine.__init__: two transparent layers and the screen.
NewVisualEngine ==
    [background_layer |-> [p \in Points |-> Clear],
     scenery_layer |-> [p \in Points |-> Clear],
     screen |-> [p \in Points |-> Clear]]

\* VisualEngine.set_background(color, filepath), on the engine record.
set_background(v, color, filepath) ==
    LET img == ScaledImage(filepath)
        layer == BlitTiles(Fill(color), img, 0)
    IN [v EXCEPT !.background_layer = layer, !.screen = BlitLayer(v.screen, layer)]

\* VisualEngine.set_scenery(filepath), on the engine record.
set_scenery(v, filepath) ==
    LET img == ScaledImage(filepath)
        layer == BlitTiles(v.scenery_layer, img, HEIGHT - img.h)
    IN [v EXCEPT !.scenery_layer = layer, !.screen = BlitLayer(v.screen, layer)]

\* font.render(text, True, color): the size of the rendered surface.  The
\* height is the font's size and the width a fixed number of pixels per font.
Render(text, font_size) == [text |-> text, w |-> 4 * font_size, h |-> font_size]
\* VisualEngine.write_centered_text(text, font, color, coord), on the engine
\* record; the rendered surface is what the method returns.
write_centered_text(v, text, font_size, coord) ==
    LET render == Render(text, font_size)
        left == coord[1] - render.w \div 2
    IN [v EXCEPT !.screen =
          [p \in Points |->
              IF /\ left <= p[1] /\ p[1] < left + render.w
                 /\ coord[2] <= p[2] /\ p[2] < coord[2] + render.h
              THEN TextPaint(text) ELSE v.screen[p]]]

(* ------------------------------------------------------------------ *)
(* State of the process                                                *)
(* ------------------------------------------------------------------ *)
VARIABLES
    pc,             \* position of the main thread
    done,           \* GameEngine.done
    current_state,  \* GameEngine.current_state
    ve,             \* the VisualEngine: background_layer, scenery_layer, screen
    music,          \* the track pygame.mixer.music plays
    files,          \* data/level: level id -> JSON document
    calls,          \* the calls made on the three engines, in order
    next_id,        \* identity of the next GameState object created
    raised,         \* the exception that left the try block, or "none"
    printed,        \* what the last handler printed
    batch,          \* the events pygame.event.get() returned in the current tick
    tick_trace,     \* the phases of the current tick called so far, with their receiver
    ticks,          \* number of ticks begun
    exit_status,    \* the status the process ended with, or -1 while it runs
    pygame_quit,    \* whether pygame.quit() has run
    probe           \* a function of the program under test: its input and its result
vars ==
    <<pc, done, current_state, ve, music, files, calls, next_id, raised, printed, batch,
      tick_trace, ticks, exit_status, pygame_quit, probe>>

NoState == [kind |-> "none", level |-> 0, id |-> 0]
NoProbe == [fn |-> "none"]
NoMusic == "none"
FIRST_LEVEL == 1
LoopPcs == {"while", "process_events", "update", "draw", "tick"}

\* What a handler works on: the fields of the driver and of the engines that
\* a GameState reaches through its four references, and the handler's result.
Ctx ==
    [done |-> done, current_state |-> current_state, ve |-> ve, music |-> music,
     calls |-> calls, next_id |-> next_id, raised |-> "none", printed |-> <<>>,
     obj |-> NoState]

\* One entry of calls: the operation, its arguments, the state object that
\* made it, done at the time of the call and the engine's surfaces after it.
Log(g, op, name, nums, owner) ==
    [g EXCEPT !.calls = Append(@, [op |-> op, name |-> name, nums |-> nums,
                                    owner |-> owner, done |-> g.done, ve |-> g.ve])]

(* ------------------------------------------------------------------ *)
(* Audio port (MusicEngine)                                            *)
(* ------------------------------------------------------------------ *)
play_music(g, music_path, owner) ==
    Log([g EXCEPT !.music = music_path, !.printed = Append(@, "Play")],
        "play_music", music_path, <<>>, owner)

(* ------------------------------------------------------------------ *)
(* Game states                                                         *)
(* ------------------------------------------------------------------ *)
\* LevelEngine.load(level) as a state calls it: the call is logged.
load(g, level, owner) == Log(g, "load", level, <<>>, owner)

\* Mutant of PlayingState_init: the music is started before the level is
\* loaded, so a failed load leaves an engine side effect behind.
PlayingState_init_MusicFirst(g, level) ==
    LET id == g.next_id
        r == LoadFrom(files, WorldId(level))
        g0 == load(play_music([g EXCEPT !.next_id = id + 1], "world1.ogg", id),
                   WorldId(level), id)
    IN IF r.err # "none" THEN [g0 EXCEPT !.raised = r.err]
       ELSE [g0 EXCEPT !.obj = [kind |-> "Playing", level |-> level, id |-> id]]

\* PlayingState.__init__(..., level): obj is the new state, raised the
\* error of the load.
PlayingState_init(g, level) ==
    LET id == g.next_id
        r == LoadFrom(files, WorldId(level))
        g0 == load([g EXCEPT !.next_id = id + 1], WorldId(level), id)
    IN IF r.err # "none" THEN [g0 EXCEPT !.raised = r.err]
       ELSE LET lv == r.level
                g1 == play_music(g0, lv.music, id)
                g2 == Log([g1 EXCEPT !.ve = set_background(@, lv.background_color,
                                                           lv.background_img)],
                          "set_background", lv.background_img, lv.background_color, id)
                g3 == Log([g2 EXCEPT !.ve = set_scenery(@, lv.scenery_img)],
                          "set_scenery", lv.scenery_img, <<>>, id)
                g4 == Log([g3 EXCEPT !.ve = write_centered_text(@, lv.name, FONT_MD_SIZE,
                                                                <<WIDTH \div 2, 16>>)],
                          "write_centered_text", lv.name, <<WIDTH \div 2, 16>>, id)
            IN [g4 EXCEPT !.obj = [kind |-> "Playing", level |-> level, id |-> id]]

\* SplashScreenState.__init__(...)
SplashScreenState_init(g) ==
    LET id == g.next_id
        r == LoadFrom(files, "splash")
        g0 == load([g EXCEPT !.next_id = id + 1], "splash", id)
    IN IF r.err # "none" THEN [g0 EXCEPT !.raised = r.err]
       ELSE LET lv == r.level
                g1 == play_music(g0, lv.music, id)
                g2 == Log([g1 EXCEPT !.ve = set_background(@, lv.background_color,
                                                           lv.background_img)],
                          "set_background", lv.background_img, lv.background_color, id)
                g3 == Log([g2 EXCEPT !.ve = set_scenery(@, lv.scenery_img)],
                          "set_scenery", lv.scenery_img, <<>>, id)
                first_line == Render(GAME_NAME, FONT_LG_SIZE)
                at1 == <<WIDTH \div 2, HEIGHT \div 3>>
                g4 == Log([g3 EXCEPT !.ve = write_centered_text(@, GAME_NAME, FONT_LG_SIZE, at1)],
                          "write_centered_text", GAME_NAME, at1, id)
                at2 == <<WIDTH \div 2, (HEIGHT \div 3) + 16 + first_line.h>>
                g5 == Log([g4 EXCEPT !.ve = write_centered_text(@, PROMPT, FONT_SM_SIZE, at2)],
                          "write_centered_text", PROMPT, at2, id)
            IN [g5 EXCEPT !.obj = [kind |-> "Splash", level |-> 0, id |-> id]]

\* Mutant of PlayingEvent: the jump key ends the game like the quit key.
PlayingEvent_JumpQuits(g, event) ==
    IF event.type = "KEYDOWN" /\ event.key = "K_SPACE"
    THEN [g EXCEPT !.done = TRUE, !.printed = Append(@, "Player jump")]
    ELSE g

\* Mutant of PlayingEvent: the quit key puts a Splash state back into the
\* slot instead of ending the loop.
PlayingEvent_QuitToSplash(g, event) ==
    IF event.type = "KEYDOWN" /\ event.key = "K_q"
    THEN [g EXCEPT !.current_state = [kind |-> "Splash", level |-> 0, id |-> 1]]
    ELSE g

\* One iteration of PlayingState.process_events: the match on event.type.
\* The guard of the first case reads event.key for QUIT and KEYDOWN alike.
PlayingEvent(g, event) ==
    IF event.type \in {"QUIT", "KEYDOWN"}
    THEN IF event.key = NoKey THEN [g EXCEPT !.raised = "AttributeError"]
         ELSE IF event.key = "K_q" THEN [g EXCEPT !.done = TRUE]
         ELSE IF event.type = "KEYDOWN" /\ event.key = "K_SPACE"
              THEN [g EXCEPT !.printed = Append(@, "Player jump")]
         ELSE IF event.type = "KEYDOWN" /\ event.key = "K_LEFT"
              THEN [g EXCEPT !.printed = Append(@, "Player left")]
         ELSE IF event.type = "KEYDOWN" /\ event.key = "K_RIGHT"
              THEN [g EXCEPT !.printed = Append(@, "Player right")]
         ELSE g
    ELSE g

\* One iteration of SplashScreenState.process_events.
SplashEvent(g, event) ==
    LET gp == [g EXCEPT !.printed = Append(@, "splash: ")]
    IN IF event.type = "QUIT" THEN [gp EXCEPT !.done = TRUE]
       ELSE IF event.type = "KEYDOWN"
            THEN LET c == PlayingState_init(gp, FIRST_LEVEL)
                 IN IF c.raised # "none" THEN c ELSE [c EXCEPT !.current_state = c.obj]
       ELSE gp

\* for event in pygame.event.get(): ... , run by the state self; an
\* exception ends the iteration.
RECURSIVE ForEachEvent(_, _, _, _)
ForEachEvent(self, g, events, i) ==
    IF i > Len(events) \/ g.raised # "none" THEN g
    ELSE ForEachEvent(self,
                      IF self.kind = "Playing" THEN PlayingEvent(g, events[i])
                      ELSE SplashEvent(g, events[i]),
                      events, i + 1)
process_events(self, g, events) == ForEachEvent(self, g, events, 1)

\* Mutant of draw: the per-tick draw starts the state's music again.
draw_RepeatsSetup(self, g) == play_music(g, g.music, self.id)

\* Mutant of update: the state's update clears the driver's done flag.
update_ResetsDone(self, g) == [g EXCEPT !.done = FALSE]

\* GameState.update and GameState.draw of both states: pass.
update(self, g) == g
draw(self, g) == g

(* ------------------------------------------------------------------ *)
(* The process: __main__, GameEngine.__init__ and GameEngine.loop      *)
(* ------------------------------------------------------------------ *)
Init ==
    /\ pc = "main"
    /\ done = FALSE
    /\ current_state = NoState
    /\ ve = NewVisualEngine
    /\ music = NoMusic
    /\ \E s \in SplashDocs, w \in World1Docs :
          files = [l \in {"splash", "world-1"} |-> IF l = "splash" THEN s ELSE w]
    /\ calls = <<>>
    /\ next_id = 1
    /\ raised = "none"
    /\ printed = <<>>
    /\ batch = <<>>
    /\ tick_trace = <<>>
    /\ ticks = 0
    /\ exit_status = -1
    /\ pygame_quit = FALSE
    /\ probe = NoProbe

\* The handler's result becomes the state of the driver and the engines.
Commit(g) ==
    /\ done' = g.done
    /\ current_state' = g.current_state
    /\ ve' = g.ve
    /\ music' = g.music
    /\ calls' = g.calls
    /\ next_id' = g.next_id
    /\ raised' = g.raised
    /\ printed' = g.printed

\* An exception other than KeyboardInterrupt leaves the try block of
\* __main__ uncaught: the process ends with status 1.  Otherwise the main
\* thread goes on at position next.
Continue(g, next) ==
    IF g.raised # "none"
    THEN pc' = "exited" /\ exit_status' = 1
    ELSE pc' = next /\ UNCHANGED exit_status

\* GameEngine(): done = False, then the Splash state is constructed and
\* stored in current_state.
GameEngineInit ==
    /\ pc = "main"
    /\ LET c == SplashScreenState_init([Ctx EXCEPT !.done = FALSE, !.ve = NewVisualEngine])
       IN /\ Commit(IF c.raised # "none" THEN c ELSE [c EXCEPT !.current_state = c.obj])
          /\ Continue(c, "while")
    /\ UNCHANGED <<files, batch, tick_trace, ticks, pygame_quit, probe>>

\* Mutant of LoopWhile: the loop condition does not read done.
LoopWhile_NoDoneCheck ==
    /\ pc = "while"
    /\ ticks < MaxTicks
    /\ pc' = "process_events"
    /\ ticks' = ticks + 1
    /\ tick_trace' = <<>>
    /\ UNCHANGED <<done, current_state, ve, music, files, calls, next_id, raised, printed,
                   batch, exit_status, pygame_quit, probe>>

\* while not self.done:
LoopWhile ==
    /\ pc = "while"
    /\ IF ~done
       THEN /\ ticks < MaxTicks
            /\ pc' = "process_events"
            /\ ticks' = ticks + 1
            /\ tick_trace' = <<>>
       ELSE /\ pc' = "loop_returned"
            /\ UNCHANGED <<ticks, tick_trace>>
    /\ UNCHANGED <<done, current_state, ve, music, files, calls, next_id, raised, printed,
                   batch, exit_status, pygame_quit, probe>>

Phase(name) == [phase |-> name, self |-> current_state]

\* self.current_state.process_events(), on the events queued at the call
LoopProcessEvents ==
    /\ pc = "process_events"
    /\ \E events \in Batches :
          LET g == process_events(current_state, Ctx, events)
          IN /\ batch' = events
             /\ Commit(g)
             /\ Continue(g, "update")
    /\ tick_trace' = Append(tick_trace, Phase("process_events"))
    /\ UNCHANGED <<files, ticks, pygame_quit, probe>>

\* Mutant of LoopUpdate: the loop keeps the state it read at the top of the
\* tick and calls update on that object.
LoopUpdate_StaleReceiver ==
    /\ pc = "update"
    /\ pc' = "draw"
    /\ tick_trace' = Append(tick_trace, [phase |-> "update", self |-> tick_trace[1].self])
    /\ UNCHANGED <<done, current_state, ve, music, files, calls, next_id, raised, printed,
                   batch, ticks, exit_status, pygame_quit, probe>>

\* Mutant of LoopUpdate: the loop goes from update to the wait, without draw.
LoopUpdate_SkipsDraw ==
    /\ pc = "update"
    /\ pc' = "tick"
    /\ tick_trace' = Append(tick_trace, [phase |-> "update", self |-> current_state])
    /\ UNCHANGED <<done, current_state, ve, music, files, calls, next_id, raised, printed,
                   batch, ticks, exit_status, pygame_quit, probe>>

\* self.current_state.update()
LoopUpdate ==
    /\ pc = "update"
    /\ LET g == update(current_state, Ctx) IN Commit(g) /\ Continue(g, "draw")
    /\ tick_trace' = Append(tick_trace, Phase("update"))
    /\ UNCHANGED <<files, batch, ticks, pygame_quit, probe>>

\* self.current_state.draw()
LoopDraw ==
    /\ pc = "draw"
    /\ LET g == draw(current_state, Ctx) IN Commit(g) /\ Continue(g, "tick")
    /\ tick_trace' = Append(tick_trace, Phase("draw"))
    /\ UNCHANGED <<files, batch, ticks, pygame_quit, probe>>

\* self.clock.tick(FPS)
LoopTick ==
    /\ pc = "tick"
    /\ pc' = "while"
    /\ tick_trace' = Append(tick_trace, Phase("tick"))
    /\ batch' = <<>>
    /\ UNCHANGED <<done, current_state, ve, music, files, calls, next_id, raised, printed,
                   ticks, exit_status, pygame_quit, probe>>

\* pygame.quit() after loop() returned; the process ends with status 0.
MainQuit ==
    /\ pc = "loop_returned"
    /\ pygame_quit' = TRUE
    /\ pc' = "exited"
    /\ exit_status' = 0
    /\ UNCHANGED <<done, current_state, ve, music, files, calls, next_id, raised, printed,
                   batch, tick_trace, ticks, probe>>

\* except KeyboardInterrupt: print, sys.exit(EX_OK).  The interrupt is
\* taken between two steps of the main thread.
KeyboardInterrupt ==
    /\ pc \in LoopPcs \cup {"main", "loop_returned"}
    /\ raised' = "KeyboardInterrupt"
    /\ printed' = <<"Stopped by user.">>
    /\ pc' = "exited"
    /\ exit_status' = EX_OK
    /\ UNCHANGED <<done, current_state, ve, music, files, calls, next_id, batch, tick_trace,
                   ticks, pygame_quit, probe>>

Next ==
    \/ GameEngineInit
    \/ LoopWhile
    \/ LoopProcessEvents
    \/ LoopUpdate
    \/ LoopDraw
    \/ LoopTick
    \/ MainQuit
    \/ KeyboardInterrupt

Spec == Init /\ [][Next]_vars

(* ------------------------------------------------------------------ *)
(* Properties                                                          *)
(* ------------------------------------------------------------------ *)
FullTick == <<"process_events", "update", "draw", "tick">>
\* the phases called so far in the tick are the first phases of a tick, in order
InOrder(trace) ==
    /\ Len(trace) <= Len(FullTick)
    /\ \A i \in 1..Len(trace) : trace[i].phase = FullTick[i]
Complete(trace) == InOrder(trace) /\ Len(trace) = Len(FullTick)
\* this step calls phase ph of the current state
Called(ph) ==
    /\ Len(tick_trace') = Len(tick_trace) + 1
    /\ tick_trace'[Len(tick_trace')].phase = ph
\* process_events of a state of this kind has run in the current tick
Handled(kind) == tick_trace # <<>> /\ tick_trace[1].self.kind = kind
IsQuit(event) == event.type = "QUIT" \/ (event.type = "KEYDOWN" /\ event.key = "K_q")
CallsOf(op, owners) == {i \in DOMAIN calls : calls[i].op = op /\ calls[i].owner \in owners}

\* C1 (as stated): once done is true, no step of the loop calls update or
\* draw any more, not even in the tick in which done was set.
C1_NoUpdateDrawAfterDone ==
    [][done => ~Called("update") /\ ~Called("draw")]_vars

\* C1 (amended): once done is true, the loop calls process_events no more
\* and begins no new tick; when loop() returns, the tick in which done was
\* set has run process_events, update, draw and the wait, once each.
C1_DoneEndsLoopAfterTick ==
    [][done => /\ ~Called("process_events")
               /\ ticks' = ticks
               /\ (pc' = "loop_returned" => Complete(tick_trace'))]_vars
C1_Witness == pc = "loop_returned" /\ done /\ Complete(tick_trace) /\ batch = <<>>

\* C2: after PlayingState.process_events has run on a batch that holds a
\* window-quit event or a key-down of q, done is true.
C2_PlayingQuitSetsDone ==
    (Handled("Playing") /\ \E i \in DOMAIN batch : IsQuit(batch[i])) => done

\* C3: after SplashScreenState.process_events has run on a batch that holds
\* a key-down (and no level file was found broken), the current state is a
\* Playing state for level 1 and play_music, set_background, set_scenery
\* and the title text have each been called exactly once by Playing states.
C3_SplashKeyDownConstructsOnce ==
    (/\ Handled("Splash")
     /\ \E i \in DOMAIN batch : batch[i].type = "KEYDOWN"
     /\ raised \notin ConfigErrors)
    => /\ current_state.kind = "Playing"
       /\ current_state.level = 1
       /\ \A op \in {"play_music", "set_background", "set_scenery", "write_centered_text"} :
             Cardinality(CallsOf(op, (1..next_id) \ {tick_trace[1].self.id})) = 1

\* C4: process_events of either state raises no error of its own on any
\* event: the only exceptions that leave it are the configuration errors of
\* a level load (and the external interrupt).
C4_EventHandlingNeverFails ==
    raised \in {"none", "KeyboardInterrupt"} \cup ConfigErrors

\* C5: when the loop has ended (short of a broken level file or an external
\* interrupt), every tick that began has run process_events, update, draw
\* and the wait.
C5_BegunTickCompletes ==
    (/\ pc \in {"loop_returned", "exited"}
     /\ ticks > 0
     /\ raised \notin ConfigErrors \cup {"KeyboardInterrupt"})
    => Complete(tick_trace)

\* C6: in every tick the phases are called in the order process_events,
\* update, draw, wait, none twice; a new tick begins only while done is
\* false and after the previous tick has run all four; loop() returns only
\* when done is true.
C6_TickOrder ==
    [][/\ InOrder(tick_trace')
       /\ (ticks' # ticks => ~done /\ (ticks = 0 \/ Complete(tick_trace)))
       /\ (Called("process_events") => tick_trace = <<>> /\ ticks > 0)
       /\ (pc' = "loop_returned" => done)]_vars
C6_Witness == ticks = 2 /\ pc = "while" /\ Complete(tick_trace) /\ ~done

\* C7: done is false when the driver has been constructed, no step takes
\* it from true to false, and within a handler no engine call that follows
\* a call made with done true sees done false again.
C7_DoneMonotonic ==
    [][/\ (pc = "main" => ~done')
       /\ (done => done')
       /\ \A i, j \in DOMAIN calls' : (i < j /\ calls'[i].done) => calls'[j].done
       /\ \A i \in DOMAIN calls' : calls'[i].done => done']_vars
C7_Witness == done /\ pc = "exited" /\ pygame_quit /\ current_state.kind = "Playing"

\* C8: while the loop runs the slot holds one constructed state, Splash or
\* Playing for level 1; the first tick starts with Splash; the kind of the
\* current state changes only from Splash to Playing for level 1.
C8_OneStateSplashThenPlaying ==
    [][/\ pc' \in LoopPcs =>
            /\ current_state'.kind \in {"Splash", "Playing"}
            /\ current_state'.id \in 1..(next_id' - 1)
            /\ (current_state'.kind = "Playing" => current_state'.level = 1)
            /\ (ticks' <= 1 /\ tick_trace' = <<>> => current_state'.kind = "Splash")
       /\ (pc \in LoopPcs /\ current_state'.kind # current_state.kind) =>
            /\ current_state.kind = "Splash"
            /\ current_state'.kind = "Playing"
            /\ current_state'.level = 1]_vars
C8_Witness == pc = "tick" /\ ticks >= 2 /\ current_state.kind = "Playing"

\* C9: right after every set_scenery(img) the scenery layer holds nothing
\* but pixels of img, and right after every set_background(color, img) the
\* background layer holds nothing but color and pixels of img.
C9_SetCallRefillsLayer ==
    \A i \in DOMAIN calls :
       /\ calls[i].op = "set_scenery" =>
             \A p \in Points :
                calls[i].ve.scenery_layer[p] \in {Clear, ImagePaint(calls[i].name)}
       /\ calls[i].op = "set_background" =>
             \A p \in Points :
                calls[i].ve.background_layer[p]
                   \in {ColorPaint(calls[i].nums), ImagePaint(calls[i].name)}

\* C10: right after every set_background or set_scenery call made once
\* both have been called, the screen shows the scenery layer wherever that
\* layer is not transparent.
C10_SceneryAboveBackground ==
    \A i \in DOMAIN calls :
       (/\ calls[i].op \in {"set_background", "set_scenery"}
        /\ \E j \in 1..i : calls[j].op = "set_background"
        /\ \E j \in 1..i : calls[j].op = "set_scenery")
       => \A p \in Points :
             calls[i].ve.scenery_layer[p].kind # "clear"
                => calls[i].ve.screen[p] = calls[i].ve.scenery_layer[p]

(* ------------------------------------------------------------------ *)
(* The engines' functions on their own: scaling, tiling, level load     *)
(* ------------------------------------------------------------------ *)
MaxImgW == 8
MaxImgH == 9
MaxTileW == 970
\* image sizes handed to the scaling of set_background and set_scenery
ScaleInputs == {[fn |-> "scale", ow |-> ow, h |-> h, applied |-> FALSE, res |-> <<>>] :
                ow \in 1..MaxImgW, h \in 1..MaxImgH}
\* scaled widths handed to the tiling loops
TileInputs == {[fn |-> "tile", w |-> w, applied |-> FALSE, res |-> <<>>] : w \in 1..MaxTileW}
\* JSON objects handed to LevelEngine.load: each string field is a string,
\* a number or absent; the colour is a string, absent, or a list of two to
\* four integers in or out of 0..255; an extra field may be present.
ColorValues ==
    {JStr("blue")} \cup
    {JList(l) : l \in {<<1, 2, 3>>, <<0, 0, 255>>, <<1, 2, 3, 4>>, <<1, 2>>,
                       <<1, 2, 256>>, <<-1, 2, 3>>}}
MkDoc(D, W, c) ==
    [f \in D |-> IF f = "background_color" THEN c
                 ELSE IF f = "gravity" THEN JStr("low")
                 ELSE IF f \in W THEN JInt(5)
                 ELSE JStr(f)]
ProbeDocs ==
    {MkDoc(D, W, c) : D \in SUBSET (LevelFields \cup {"gravity"}),
                      W \in SUBSET StrFields, c \in ColorValues}
LoadInputs == {[fn |-> "load", doc |-> d, applied |-> FALSE, res |-> <<>>] : d \in ProbeDocs}

FnInit ==
    /\ pc = "probe"
    /\ done = FALSE
    /\ current_state = NoState
    /\ ve = NewVisualEngine
    /\ music = NoMusic
    /\ files = <<>>
    /\ calls = <<>>
    /\ next_id = 1
    /\ raised = "none"
    /\ printed = <<>>
    /\ batch = <<>>
    /\ tick_trace = <<>>
    /\ ticks = 0
    /\ exit_status = -1
    /\ pygame_quit = FALSE
    /\ probe \in ScaleInputs \cup TileInputs \cup LoadInputs
Idle ==
    UNCHANGED <<pc, done, current_state, ve, music, files, calls, next_id, raised,
                printed, batch, tick_trace, ticks, exit_status, pygame_quit>>
\* the scaling of set_background and set_scenery applied to one image
FnScale ==
    /\ probe.fn = "scale"
    /\ ~probe.applied
    /\ probe' = [probe EXCEPT !.applied = TRUE, !.res = Scale(probe.ow, probe.h)]
    /\ Idle
\* the tiling loop of set_background and set_scenery for one width
FnTile ==
    /\ probe.fn = "tile"
    /\ ~probe.applied
    /\ probe' = [probe EXCEPT !.applied = TRUE, !.res = TileXs(probe.w)]
    /\ Idle
\* LevelEngine.load of a level whose file holds the document
FnLoad ==
    /\ probe.fn = "load"
    /\ ~probe.applied
    /\ probe' = [probe EXCEPT !.applied = TRUE, !.res = LoadFrom((1 :> probe.doc), 1)]
    /\ Idle
FnNext ==
    \/ FnScale
    \/ FnTile
    \/ FnLoad
FnSpec == FnInit /\ [][FnNext]_vars

Applied(fn) == probe.fn = fn /\ probe.applied

\* round(n / d) of Python for n >= 0, d > 0: the nearest integer, a tie
\* going to the even one.
Round(n, d) ==
    LET q == n \div d
        r == n % d
    IN  IF 2 * r < d THEN q
        ELSE IF 2 * r > d THEN q + 1
        ELSE IF q % 2 = 0 THEN q ELSE q + 1

\* C11: for every image of original width ow and height h > 0, the scaling
\* gives width round(ow * HEIGHT / h) and height exactly HEIGHT.
C11_ScaledWidthIsRounded ==
    Applied("scale")
    => /\ probe.res.w = Round(probe.ow * HEIGHT, probe.h)
       /\ probe.res.h = HEIGHT
\* C11 (amended): the scaled height is exactly HEIGHT and the scaled width w
\* is ow * HEIGHT / h truncated: w * h <= ow * HEIGHT < (w + 1) * h. It is
\* the rounded value when the fraction cut off is below one half (or is one
\* half and w is even), and one less than the rounded value otherwise.
C11_ScaledWidthIsTruncated ==
    Applied("scale")
    => LET w == probe.res.w
           n == probe.ow * HEIGHT
           cut == n - w * probe.h
       IN  /\ probe.res.h = HEIGHT
           /\ w * probe.h <= n
           /\ n < (w + 1) * probe.h
           /\ w = IF 2 * cut < probe.h \/ (2 * cut = probe.h /\ w % 2 = 0)
                  THEN Round(n, probe.h)
                  ELSE Round(n, probe.h) - 1
C11_Witness ==
    /\ Applied("scale")
    /\ probe.ow = 2
    /\ probe.h = 3
    /\ probe.res.w = 426
    /\ probe.res.h = HEIGHT

\* C12: for any scaled width w > 0 the tiles are placed at x = 0, w, 2w, ...
\* with no gap (the first tile is at 0 and every further tile starts where
\* the one before it ends), every tile starts inside the viewport, and the
\* right edge of the last tile is >= WIDTH.
C12_TilesCoverViewport ==
    Applied("tile")
    => LET xs == probe.res
           w == probe.w
       IN  /\ 0 \in xs
           /\ \A x \in xs : /\ x \in 0..(WIDTH - 1)
                            /\ x = 0 \/ x - w \in xs
                            /\ x + w \in xs \/ x + w >= WIDTH
C12_Witness ==
    /\ Applied("tile")
    /\ probe.w = 300
    /\ probe.res = {0, 300, 600, 900}

\* C13: a document that violates the schema fails at the validation step
\* with a validation error, and the decode step is never entered for it.
C13_InvalidFailsBeforeDecode ==
    (Applied("load") /\ ~Validate(probe.doc))
    => /\ probe.res.err = "ValidationError"
       /\ probe.res.steps = <<"read", "validate">>
       /\ probe.res.level = NoLevel
C13_Witness ==
    /\ Applied("load")
    /\ DOMAIN probe.doc = LevelFields
    /\ FromDictError(probe.doc) = "none"
    /\ probe.doc["background_color"].l = <<1, 2, 3, 4>>
    /\ probe.res.err = "ValidationError"

\* the defects C14 names, judged against the fields of the dataclass
Missing(doc) == LevelFields \ DOMAIN doc # {}
Extra(doc) == DOMAIN doc \ LevelFields # {}
WrongTyped(doc) ==
    \E f \in DOMAIN doc \cap LevelFields :
        doc[f].t # (IF f = "background_color" THEN "list" ELSE "str")
ExactFive(doc) == ~Missing(doc) /\ ~Extra(doc) /\ ~WrongTyped(doc)
DecodeErrors == {"UnexpectedDataError", "MissingValueError", "WrongTypeError"}
Verbatim(level, doc) ==
    /\ \A f \in StrFields : level[f] = doc[f].s
    /\ level.background_color = doc["background_color"].l

\* C14: an object that misses a required field, has an extra field or has a
\* wrong-typed field fails with a decode error; an object with exactly the
\* five correctly-typed fields loads, every field equal to the input.
C14_DecodeIsTheGate ==
    Applied("load")
    => /\ ~ExactFive(probe.doc) => probe.res.err \in DecodeErrors
       /\ ExactFive(probe.doc)
          => probe.res.err = "none" /\ Verbatim(probe.res.level, probe.doc)
\* C14 (amended): an object with one of the three defects fails, with a
\* validation error when it violates the schema (as every object with a
\* missing or wrong-typed field does) and with a decode error otherwise (an
\* extra field the schema permits); an object with exactly the five
\* correctly-typed fields loads, every field equal to the input, when it
\* satisfies the schema, and fails with a validation error when not.
C14_SchemaThenStrictDecode ==
    Applied("load")
    => LET doc == probe.doc
           err == probe.res.err
       IN  /\ ~ExactFive(doc) => err \in DecodeErrors \cup {"ValidationError"}
           /\ (Missing(doc) \/ WrongTyped(doc)) => err = "ValidationError"
           /\ (Extra(doc) /\ ~Missing(doc) /\ ~WrongTyped(doc))
              => err = IF Validate(doc) THEN "UnexpectedDataError" ELSE "ValidationError"
           /\ ExactFive(doc)
              => IF Validate(doc)
                 THEN err = "none" /\ Verbatim(probe.res.level, doc)
                 ELSE err = "ValidationError"
C14_Witness ==
    /\ Applied("load")
    /\ Extra(probe.doc)
    /\ Validate(probe.doc)
    /\ probe.res.err = "UnexpectedDataError"

\* C15: when the run has been stopped by KeyboardInterrupt after the driver
\* was constructed, the process has exited with status EX_OK and
\* pygame.quit() has run.
C15_InterruptQuitsPygame ==
    (raised = "KeyboardInterrupt" /\ current_state # NoState)
    => (pc = "exited" /\ exit_status = EX_OK /\ pygame_quit)

\* the calls of state object o, in order
CallsBy(o) == SelectSeq(calls, LAMBDA c : c.owner = o)
SetupOps(level) ==
    IF level = "splash"
    THEN <<"load", "play_music", "set_background", "set_scenery", "write_centered_text",
           "write_centered_text">>
    ELSE <<"load", "play_music", "set_background", "set_scenery", "write_centered_text">>
\* the calls cs are the setup of a state for the level lv loaded from id
IsSetup(cs, id, lv) ==
    /\ [i \in 1..Len(cs) |-> cs[i].op] = SetupOps(id)
    /\ cs[2].name = lv.music
    /\ cs[3].name = lv.background_img /\ cs[3].nums = lv.background_color
    /\ cs[4].name = lv.scenery_img
    /\ IF id = "splash"
       THEN /\ cs[5].name = GAME_NAME
            /\ cs[6].name = PROMPT
            /\ cs[6].nums[1] = cs[5].nums[1]
            /\ cs[6].nums[2] = cs[5].nums[2] + 16 + Render(GAME_NAME, FONT_LG_SIZE).h
       ELSE cs[5].name = lv.name

\* C16: every state object constructed has made, in this order and once
\* each, one level load, one play_music, one set_background, one
\* set_scenery and its text draws (Splash: the title, then the prompt
\* beneath it), with the values of its level; a state whose load failed has
\* made the load only; update and draw make no engine call.
C16_SetupOncePerConstruction ==
    [][/\ \A o \in 1..(next_id' - 1) :
             LET cs == SelectSeq(calls', LAMBDA c : c.owner = o)
                 r == LoadFrom(files, cs[1].name)
             IN /\ cs # <<>>
                /\ cs[1].op = "load"
                /\ cs[1].name \in {"splash", "world-1"}
                /\ IF r.err # "none" THEN Len(cs) = 1 ELSE IsSetup(cs, cs[1].name, r.level)
       /\ (Called("update") \/ Called("draw") \/ Called("tick"))
             => (calls' = calls /\ ve' = ve /\ music' = music)]_vars
C16_Witness ==
    /\ pc = "tick"
    /\ current_state.kind = "Playing"
    /\ Len(CallsBy(1)) = 6
    /\ Len(CallsBy(2)) = 5
    /\ ticks = 2

IsMove(event) == event.type = "KEYDOWN" /\ event.key \in {"K_SPACE", "K_LEFT", "K_RIGHT"}
MoveLine(event) ==
    CASE event.key = "K_SPACE" -> "Player jump"
      [] event.key = "K_LEFT" -> "Player left"
      [] event.key = "K_RIGHT" -> "Player right"

\* C17: a PlayingState.process_events on a batch without a quit event or q
\* key-down leaves done, the current state, the surfaces, the music and the
\* engine calls as they were, raises nothing, and prints one line for each
\* key-down of space, left or right, in the order of the events.
C17_MoveKeysOnlyLogged ==
    [][(/\ Called("process_events")
        /\ current_state.kind = "Playing"
        /\ \A i \in DOMAIN batch' : ~IsQuit(batch'[i]))
       => /\ done' = done
          /\ current_state' = current_state
          /\ ve' = ve
          /\ music' = music
          /\ calls' = calls
          /\ next_id' = next_id
          /\ raised' = "none"
          /\ LET moves == SelectSeq(batch', IsMove)
             IN printed' = [i \in 1..Len(moves) |-> MoveLine(moves[i])]]_vars
C17_Witness ==
    /\ Handled("Playing")
    /\ Len(tick_trace) = 1
    /\ batch = <<[type |-> "KEYDOWN", key |-> "K_SPACE"], [type |-> "KEYDOWN", key |-> "K_RIGHT"]>>
    /\ printed = <<"Player jump", "Player right">>

\* C18: update, draw and the wait of a tick are called on the state that is
\* current after process_events: after a swap it is the new Playing state,
\* not the Splash state whose process_events ran.
C18_PhasesOnCurrentState ==
    \A i \in 2..Len(tick_trace) : tick_trace[i].self = current_state
C18_Witness ==
    /\ Handled("Splash")
    /\ Len(tick_trace) = 3
    /\ tick_trace[2].self.kind = "Playing"
    /\ tick_trace[3].self.kind = "Playing"

\* C19: when the level load of a transition has failed, the failed state
\* has made no call but the load, the surfaces and the music are those the
\* Splash construction left, the slot holds the Splash state that handled
\* the events, and the error has ended the tick, the loop and the process
\* (status 1) without update, draw or pygame.quit().
C19_FailedLoadIsAtomic ==
    (raised \in ConfigErrors /\ ticks > 0)
    => /\ Handled("Splash")
       /\ Len(tick_trace) = 1
       /\ current_state = tick_trace[1].self
       /\ Len(CallsBy(next_id - 1)) = 1
       /\ calls[Len(calls)].op = "load"
       /\ calls[Len(calls)].owner = next_id - 1
       /\ ve = calls[Len(calls) - 1].ve
       /\ music = calls[2].name
       /\ pc = "exited"
       /\ exit_status = 1
       /\ ~pygame_quit
C19_Witness ==
    /\ raised = "ValidationError"
    /\ ticks = 1
    /\ current_state.kind = "Splash"
    /\ Len(calls) = 7

\* C20: no call of a state construction (level load, play_music,
\* set_background, set_scenery, text) is made once done is true.
C20_NoConstructionAfterDone ==
    \A i \in DOMAIN calls : ~calls[i].done

====
